---- MODULE Spec2Model ----
(***************************************************************************)
(* State-machine model of src/src/RustlersStatsApp.tsx: the stat-event     *)
(* ledger (applyDelta / undoLast / clear), the game record life cycle and  *)
(* the Store that holds them.                                              *)
(*                                                                         *)
(* Representation choices:                                                 *)
(*  - an id made by uid() is a positive integer taken from the counter     *)
(*    `clock`; 0 stands for null.  uid() is random + time based in the     *)
(*    code, the model keeps only what the code relies on: freshness.       *)
(*  - Date.now() (HistoryEvent.at, UndoAction.at) is the same counter.     *)
(*  - a Line is a function over the 9 stat keys; a delta is a function     *)
(*    over the subset of keys it carries (delta[k] != null  <=>            *)
(*    k \in DOMAIN delta).                                                 *)
(*  - a date (dateISO) is a day number.                                    *)
(*  - view-only React state that no modelled handler reads (tab, quick,    *)
(*    compactMode, hideLeftPanel, bottomPanel, rosterMode) is left out.    *)
(*  - the two effects that react to every render (auto-select of the       *)
(*    active game, selection of the first home player) are part of each    *)
(*    action that can trigger them, and so is the effect that saves the    *)
(*    Store to localStorage after every render that changed it.            *)
(***************************************************************************)
EXTENDS Integers, Sequences, FiniteSets, TLC

VARIABLES
    store,         \* useState<Store>: [roster, oppRoster, games]
    team,          \* useState<TeamKey>
    activeGameId,  \* useState<string | null>
    selected,      \* useState<{side, playerId} | null>
    toast,         \* useState<string>, as the pieces of the template literal; <<>> is ""
    clock,         \* number of ids handed out by uid() so far
    persisted,     \* the content of localStorage under LS_KEY
    lastOp,        \* history variable: the handler that ran last and the event it handled
    before,        \* history variable: the Store as it was when that handler started
                   \* (kept for the handlers of the event ledger)
    origin,        \* history variable: after an apply-event directly followed by an undo,
                   \* the Store as it was before the apply-event
    clamped        \* history variable: some apply-event so far took the score of its
                   \* side below 0 and had it clamped

vars == <<store, team, activeGameId, selected, toast, clock, persisted, lastOp, before, origin, clamped>>

----------------------------------------------------------------------------
(* Bounds of the model *)

\* players in each roster template of the persisted snapshot the session starts from
RosterSize == 2
\* players in each opponent template of that snapshot
OppSize == 1
\* apply-events in one run of the ledger specification
MaxEvents == 2
\* apply-events in one run of the period specification
MaxPeriodEvents == 2
\* apply-events of the long run (one more than the history bound)
MaxLongEvents == 501
\* games in the Store in one run of the games specification
MaxGames == 2
\* games created in one run of the creation specification
MaxCreated == 3
\* text fields of the roster templates filled in before the creation specification
\* leaves the roster editor alone
MaxTemplateFields == 2
\* apply-events in one run of the forward specification
MaxForwardEvents == 2
\* periods, from the first on, that the forward specification moves among
MaxForwardPeriods == 2
\* apply-events in one run of the tally specification
MaxTallyEvents == 2
\* events applied, text fields filled in and periods moved on, together, before the
\* games specification leaves the content of the Store alone
MaxActivity == 2

----------------------------------------------------------------------------
(* Program constants *)

HISTORY_MAX == 500
UNDO_MAX == 300

STAT_KEYS == <<"pts", "fgm", "fga", "tpm", "tpa", "ftm", "fta", "to", "pf">>

StatKeySet == {STAT_KEYS[i] : i \in 1..Len(STAT_KEYS)}

PERIODS == <<"Q1", "Q2", "Q3", "Q4", "OT">>

TeamKeys == {"girls", "boys"}

SideKeys == {"home", "opp"}

Null == 0

NoSelection == [side |-> "none", playerId |-> Null]

----------------------------------------------------------------------------
(* Line arithmetic *)

emptyLine == [k \in StatKeySet |-> 0]

clamp0_identity(n) == n

clamp0(n) == IF n < 0 THEN 0 ELSE n

\* lines[id] || emptyLine()
lineOf(lines, id) == IF id \in DOMAIN lines THEN lines[id] ELSE emptyLine

withLine_only(lines, id, line) == [p \in {id} |-> line]

\* { ...curLines, [id]: line }
withLine(lines, id, line) ==
    [p \in (DOMAIN lines) \cup {id} |-> IF p = id THEN line ELSE lines[p]]

addDelta_unclamped(cur, delta) ==
    [k \in StatKeySet |-> IF k \in DOMAIN delta THEN cur[k] + delta[k] ELSE cur[k]]

addDelta_dropsAbsent(cur, delta) ==
    [k \in StatKeySet |-> IF k \in DOMAIN delta THEN clamp0(cur[k] + delta[k]) ELSE 0]

\* const next = { ...cur }; for k of STAT_KEYS: if delta[k] != null, next[k] = clamp0(next[k] + delta[k])
addDelta(cur, delta) ==
    [k \in StatKeySet |-> IF k \in DOMAIN delta THEN clamp0(cur[k] + delta[k]) ELSE cur[k]]

negate_same(delta) == delta

\* neg[k] = -delta[k] for every key the delta carries
negate(delta) == [k \in DOMAIN delta |-> 0 - delta[k]]

\* typeof delta.pts === "number" ? delta.pts : 0
ptsOf(delta) == IF "pts" \in DOMAIN delta THEN delta["pts"] ELSE 0

RECURSIVE sumKey(_, _, _)
sumKey(lines, ids, k) ==
    IF ids = <<>> THEN 0
    ELSE lineOf(lines, Head(ids))[k] + sumKey(lines, Tail(ids), k)

sumLines(lines, ids) == [k \in StatKeySet |-> sumKey(lines, ids, k)]

Min(a, b) == IF a < b THEN a ELSE b

Max2(a, b) == IF a > b THEN a ELSE b

slice0_oneMore(s, n) == SubSeq(s, 1, Min(n + 1, Len(s)))

\* Array.prototype.slice(0, n)
slice0(s, n) == SubSeq(s, 1, Min(n, Len(s)))

----------------------------------------------------------------------------
(* Stat-button catalog *)

statButtons == <<
    [label |-> "+2",      delta |-> [pts |-> 2, fgm |-> 1, fga |-> 1]],
    [label |-> "+3",      delta |-> [pts |-> 3, tpm |-> 1, tpa |-> 1, fgm |-> 1, fga |-> 1]],
    [label |-> "FT +1",   delta |-> [pts |-> 1, ftm |-> 1, fta |-> 1]],
    [label |-> "2 Miss",  delta |-> [fga |-> 1]],
    [label |-> "3 Miss",  delta |-> [tpa |-> 1, fga |-> 1]],
    [label |-> "FT Miss", delta |-> [fta |-> 1]],
    [label |-> "TO",      delta |-> [to |-> 1]],
    [label |-> "PF",      delta |-> [pf |-> 1]] >>

negButtons == <<
    [label |-> "-2",       delta |-> [pts |-> -2, fgm |-> -1, fga |-> -1]],
    [label |-> "-3",       delta |-> [pts |-> -3, tpm |-> -1, tpa |-> -1, fgm |-> -1, fga |-> -1]],
    [label |-> "FT -1",    delta |-> [pts |-> -1, ftm |-> -1, fta |-> -1]],
    [label |-> "2 -Miss",  delta |-> [fga |-> -1]],
    [label |-> "3 -Miss",  delta |-> [tpa |-> -1, fga |-> -1]],
    [label |-> "FT -Miss", delta |-> [fta |-> -1]],
    [label |-> "-TO",      delta |-> [to |-> -1]],
    [label |-> "-PF",      delta |-> [pf |-> -1]] >>

Range(s) == {s[i] : i \in 1..Len(s)}

ForwardButtons == Range(statButtons)

AllButtons == Range(statButtons) \cup Range(negButtons)

----------------------------------------------------------------------------
(* Store, rosters and games *)

\* one blank player as makeBlankRoster / the default Store builds it
blankPlayer(id) == [id |-> id, no |-> "", name |-> "", ht |-> "", cls |-> "", pos |-> ""]

\* n blank players with the ids first+1 .. first+n
makeBlankRoster(first, n) == [i \in 1..n |-> blankPlayer(first + i)]

idsOf(list) == [i \in 1..Len(list) |-> list[i].id]

cloneRosterWithNewIds_sameIds(list, first) == list

\* list.map(p => ({ id: uid(prefix), no: p.no || "", ... })), ids first+1 .. first+Len(list)
cloneRosterWithNewIds(list, first) ==
    [i \in 1..Len(list) |->
        [id |-> first + i, no |-> list[i].no, name |-> list[i].name,
         ht |-> list[i].ht, cls |-> list[i].cls, pos |-> list[i].pos]]

gameIndex(games, id) == {i \in 1..Len(games) : games[i].id = id}

\* store.games.find(g => g.id === activeGameId) || null
hasActiveGame == activeGameId # Null /\ gameIndex(store.games, activeGameId) # {}

activeGame ==
    LET idx == gameIndex(store.games, activeGameId)
    IN store.games[CHOOSE i \in idx : \A j \in idx : i <= j]

\* { ...g, ...patch }
mergeGame(g, patch) ==
    [f \in (DOMAIN g) \cup (DOMAIN patch) |-> IF f \in DOMAIN patch THEN patch[f] ELSE g[f]]

NoStore == [games |-> <<>>, none |-> TRUE]

NoEvent == [side |-> "none", playerId |-> Null, delta |-> <<>>, label |-> ""]

\* localStorage.setItem(LS_KEY, JSON.stringify(store)): the JSON text stands for the
\* value it parses to
saveStore(s) == [kind |-> "json", value |-> s]

saveEffect_onMountOnly == persisted' = persisted

\* useEffect(() => saveStore(store), [store]): runs after every render that a
\* setStore call of the handler brought about
saveEffect == persisted' = IF store' # store THEN saveStore(store') ELSE persisted

\* the score of the event's side in the active game would go below 0 with the
\* points of the event
scoreClampedBy(ev) ==
    (IF ev.side = "home" THEN activeGame.scoreHome ELSE activeGame.scoreOpp)
        + (IF "pts" \in DOMAIN ev.delta THEN ev.delta["pts"] ELSE 0) < 0

\* what follows a ledger handler named op that handled the event ev: the save
\* effect, and the history variables
ran(op, ev) ==
    /\ saveEffect
    /\ lastOp' = [op |-> op, ev |-> ev]
    /\ before' = store
    /\ origin' = NoStore
    /\ clamped' = (clamped \/ (op = "apply" /\ scoreClampedBy(ev)))

\* what follows any other handler
moved(op) ==
    /\ saveEffect
    /\ lastOp' = [op |-> op, ev |-> NoEvent]
    /\ before' = NoStore
    /\ origin' = NoStore
    /\ clamped' = clamped

patchedGames_all(games, id, patch) == [i \in 1..Len(games) |-> mergeGame(games[i], patch)]

\* games: s.games.map(g => g.id === activeGame.id ? { ...g, ...patch } : g)
patchedGames(games, id, patch) ==
    [i \in 1..Len(games) |-> IF games[i].id = id THEN mergeGame(games[i], patch) ELSE games[i]]

updateGame_dropsOthers(patch) ==
    IF ~hasActiveGame THEN store
    ELSE [store EXCEPT !.games = <<mergeGame(activeGame, patch)>>]

\* updateGame(patch): the Store after the update; nothing changes without an active game
updateGame(patch) ==
    IF ~hasActiveGame THEN store
    ELSE [store EXCEPT !.games = patchedGames(store.games, activeGame.id, patch)]

linesKeyOf(sideKey) == IF sideKey = "home" THEN "linesHome" ELSE "linesOpp"

\* PERIODS.indexOf(p), 0-based, -1 when absent
indexOfPeriod(p) ==
    IF \E i \in 1..Len(PERIODS) : PERIODS[i] = p
    THEN (CHOOSE i \in 1..Len(PERIODS) : PERIODS[i] = p) - 1
    ELSE -1

----------------------------------------------------------------------------
(* Effects that run after a render *)

gameById(s, id) ==
    LET idx == gameIndex(s.games, id)
    IN s.games[CHOOSE i \in idx : \A j \in idx : i <= j]

\* candidates[0] of store.games.filter(g => g.team === team).sort(by dateISO, newest first):
\* a game of the team with the latest date (the comparator does not order equal dates)
autoSelectCandidates(s, t) ==
    {s.games[i].id : i \in {j \in 1..Len(s.games) :
        /\ s.games[j].team = t
        /\ \A k \in 1..Len(s.games) : s.games[k].team = t => s.games[k].dateISO <= s.games[j].dateISO}}

firstHomeSelected_keeps(s, id, sel) == sel

\* effect on [activeGameId]: select the first home player of the game, when it has one
firstHomeSelected(s, id, sel) ==
    IF gameIndex(s.games, id) = {} THEN sel
    ELSE LET g == gameById(s, id)
         IN IF "homeRosterIds" \in DOMAIN g /\ Len(g.homeRosterIds) > 0
            THEN [side |-> "home", playerId |-> g.homeRosterIds[1]]
            ELSE sel

\* the state of activeGameId / selected once the effects have settled, given the
\* Store s, the team t, the active game id ag and the selection sel the handler left
settle(s, t, ag, sel) ==
    IF ag = Null /\ autoSelectCandidates(s, t) # {}
    THEN \E id \in autoSelectCandidates(s, t) :
            /\ activeGameId' = id
            /\ selected' = firstHomeSelected(s, id, sel)
    ELSE /\ activeGameId' = ag
         /\ selected' = sel

----------------------------------------------------------------------------
(* Game record life cycle *)

zeroLines(ids) == [id \in Range(ids) |-> emptyLine]

\* the Game built by ensureGame: opponent ids clock+1.., then the game id
newGame(s, t, today, first) ==
    LET oppRoster == cloneRosterWithNewIds(s.oppRoster[t], first)
        gameHomeIds == idsOf(s.roster[t])
    IN [id |-> first + Len(oppRoster) + 1,
        team |-> t,
        dateISO |-> today,
        opponent |-> "",
        location |-> "",
        notes |-> "",
        homeRosterIds |-> gameHomeIds,
        oppRoster |-> oppRoster,
        linesHome |-> zeroLines(gameHomeIds),
        linesOpp |-> zeroLines(idsOf(oppRoster)),
        undo |-> <<>>,
        period |-> "Q1",
        scoreHome |-> 0,
        scoreOpp |-> 0,
        history |-> <<>>]

ensureGame_appends(today) ==
    LET g == newGame(store, team, today, clock)
        s == [store EXCEPT !.games = @ \o <<g>>]
    IN /\ store' = s
       /\ clock' = g.id
       /\ settle(s, team, g.id, firstHomeSelected(s, g.id, selected))
       /\ toast' = <<"New game created">>
       /\ team' = team
       /\ moved("ensureGame")

ensureGame(today) ==
    LET g == newGame(store, team, today, clock)
        s == [store EXCEPT !.games = <<g>> \o @]
    IN /\ store' = s
       /\ clock' = g.id
       /\ settle(s, team, g.id, firstHomeSelected(s, g.id, selected))
       /\ toast' = <<"New game created">>
       /\ team' = team
       /\ moved("ensureGame")

\* "Change Game": setActiveGameId(null); the auto-select effect then picks a game again
changeGame ==
    /\ hasActiveGame
    /\ settle(store, team, Null, selected)
    /\ UNCHANGED <<store, team, toast, clock>>
    /\ moved("changeGame")

\* the rows a tap can select: the opponent roster of the game, and the home ids of
\* the game that the roster of the current team still holds
selectable(side) ==
    IF ~hasActiveGame THEN {}
    ELSE IF side = "opp" THEN Range(idsOf(activeGame.oppRoster))
    ELSE Range(activeGame.homeRosterIds) \cap Range(idsOf(store.roster[team]))

selectPlayer(side, playerId) ==
    /\ playerId \in selectable(side)
    /\ selected' = [side |-> side, playerId |-> playerId]
    /\ UNCHANGED <<store, team, activeGameId, toast, clock>>
    /\ moved("selectPlayer")

setPeriod(p) ==
    /\ hasActiveGame
    /\ store' = updateGame([period |-> p])
    /\ toast' = <<"Period: ", p>>
    /\ moved("setPeriod")
    /\ UNCHANGED <<team, activeGameId, selected, clock>>

periodAfter_wraps(p) ==
    PERIODS[((indexOfPeriod(IF p = "" THEN "Q1" ELSE p) + 1) % Len(PERIODS)) + 1]

\* PERIODS[Math.min(PERIODS.length - 1, idx + 1)] with idx = PERIODS.indexOf(period || "Q1")
periodAfter(p) ==
    PERIODS[Min(Len(PERIODS) - 1, indexOfPeriod(IF p = "" THEN "Q1" ELSE p) + 1) + 1]

nextPeriod ==
    /\ hasActiveGame
    /\ store' = updateGame([period |-> periodAfter(activeGame.period)])
    /\ toast' = <<"Period: ", periodAfter(activeGame.period)>>
    /\ moved("nextPeriod")
    /\ UNCHANGED <<team, activeGameId, selected, clock>>

\* the toast clears itself after 1200 ms
toastTimeout ==
    /\ toast # <<>>
    /\ toast' = <<>>
    /\ UNCHANGED <<store, team, activeGameId, selected, clock, persisted, lastOp, before, origin, clamped>>

----------------------------------------------------------------------------
(* Event ledger *)

\* scoreboard update from the pts delta only: clamp0(score + ptsDelta) when ptsDelta !== 0
scoreAfter(score, ptsDelta) == IF ptsDelta # 0 THEN clamp0(score + ptsDelta) ELSE score

scoreHomeAfter_anySide(g, sideKey, ptsDelta) == scoreAfter(g.scoreHome, ptsDelta)

scoreHomeAfter(g, sideKey, ptsDelta) ==
    IF sideKey = "home" THEN scoreAfter(g.scoreHome, ptsDelta) ELSE g.scoreHome

scoreOppAfter_anySide(g, sideKey, ptsDelta) == scoreAfter(g.scoreOpp, ptsDelta)

scoreOppAfter(g, sideKey, ptsDelta) ==
    IF sideKey = "home" THEN g.scoreOpp ELSE scoreAfter(g.scoreOpp, ptsDelta)

historyEvent_scoresBefore(g, sideKey, playerId, delta, label, hid) ==
    [id |-> hid,
     at |-> hid,
     period |-> IF g.period = "" THEN "Q1" ELSE g.period,
     side |-> sideKey,
     playerId |-> playerId,
     label |-> label,
     delta |-> delta,
     homeScore |-> g.scoreHome,
     oppScore |-> g.scoreOpp]

\* the HistoryEvent of applyDelta; hid is the id uid("h") returned
historyEvent(g, sideKey, playerId, delta, label, hid) ==
    [id |-> hid,
     at |-> hid,
     period |-> IF g.period = "" THEN "Q1" ELSE g.period,
     side |-> sideKey,
     playerId |-> playerId,
     label |-> label,
     delta |-> delta,
     homeScore |-> scoreHomeAfter(g, sideKey, ptsOf(delta)),
     oppScore |-> scoreOppAfter(g, sideKey, ptsOf(delta))]

undoActionOf_noHistoryId(sideKey, playerId, delta, label, hid) ==
    [at |-> hid, label |-> label, side |-> sideKey, playerId |-> playerId,
     delta |-> delta, historyId |-> Null]

\* the UndoAction of applyDelta
undoActionOf(sideKey, playerId, delta, label, hid) ==
    [at |-> hid, label |-> label, side |-> sideKey, playerId |-> playerId,
     delta |-> delta, historyId |-> hid]

applyPatch_unbounded(g, sideKey, playerId, delta, label, hid) ==
    LET linesKey == linesKeyOf(sideKey)
        curLines == g[linesKey]
        next == addDelta(lineOf(curLines, playerId), delta)
    IN [f \in {linesKey, "undo", "scoreHome", "scoreOpp", "history"} |->
          CASE f = linesKey -> withLine(curLines, playerId, next)
            [] f = "undo" -> <<undoActionOf(sideKey, playerId, delta, label, hid)>> \o g.undo
            [] f = "scoreHome" -> scoreHomeAfter(g, sideKey, ptsOf(delta))
            [] f = "scoreOpp" -> scoreOppAfter(g, sideKey, ptsOf(delta))
            [] f = "history" -> <<historyEvent(g, sideKey, playerId, delta, label, hid)>> \o g.history]

\* the patch applyDelta hands to updateGame
applyPatch(g, sideKey, playerId, delta, label, hid) ==
    LET linesKey == linesKeyOf(sideKey)
        curLines == g[linesKey]
        next == addDelta(lineOf(curLines, playerId), delta)
    IN [f \in {linesKey, "undo", "scoreHome", "scoreOpp", "history"} |->
          CASE f = linesKey -> withLine(curLines, playerId, next)
            [] f = "undo" -> slice0(<<undoActionOf(sideKey, playerId, delta, label, hid)>> \o g.undo, UNDO_MAX)
            [] f = "scoreHome" -> scoreHomeAfter(g, sideKey, ptsOf(delta))
            [] f = "scoreOpp" -> scoreOppAfter(g, sideKey, ptsOf(delta))
            [] f = "history" -> slice0(<<historyEvent(g, sideKey, playerId, delta, label, hid)>> \o g.history, HISTORY_MAX)]

applyDelta(sideKey, playerId, delta, label) ==
    /\ hasActiveGame
    /\ store' = updateGame(applyPatch(activeGame, sideKey, playerId, delta, label, clock + 1))
    /\ clock' = clock + 1
    /\ toast' = <<label>>
    /\ ran("apply", [side |-> sideKey, playerId |-> playerId, delta |-> delta, label |-> label])
    /\ UNCHANGED <<team, activeGameId, selected>>

onTapStat_noSelectedCheck(btn) ==
    \/ /\ ~hasActiveGame
       /\ UNCHANGED <<store, team, activeGameId, selected, toast, clock>>
       /\ ran("tapNoGame", NoEvent)
    \/ /\ hasActiveGame
       /\ applyDelta(selected.side, selected.playerId, btn.delta, btn.label)

\* a tap on a stat button.  The buttons are rendered only while a game is active;
\* the handler's own check of activeGame is modelled all the same.
onTapStat(btn) ==
    \/ /\ ~hasActiveGame
       /\ UNCHANGED <<store, team, activeGameId, selected, toast, clock>>
       /\ ran("tapNoGame", NoEvent)
    \/ /\ hasActiveGame
       /\ selected = NoSelection
       /\ toast' = <<"Select a player">>
       /\ UNCHANGED <<store, team, activeGameId, selected, clock>>
       /\ ran("tapNoPlayer", NoEvent)
    \/ /\ hasActiveGame
       /\ selected # NoSelection
       /\ applyDelta(selected.side, selected.playerId, btn.delta, btn.label)

historyWithout_keeps(history, historyId) == history

\* history without the event the undo action refers to: the head when it matches,
\* else every entry with that id filtered out
historyWithout(history, historyId) ==
    IF historyId # Null /\ Len(history) > 0 /\ history[1].id = historyId
    THEN Tail(history)
    ELSE IF historyId # Null
         THEN SelectSeq(history, LAMBDA h : h.id # historyId)
         ELSE history

undoPatch_keepsStack(g) ==
    LET last == Head(g.undo)
        neg == negate(last.delta)
        linesKey == linesKeyOf(last.side)
        curLines == g[linesKey]
        next == addDelta(lineOf(curLines, last.playerId), neg)
    IN [f \in {linesKey, "undo", "scoreHome", "scoreOpp", "history"} |->
          CASE f = linesKey -> withLine(curLines, last.playerId, next)
            [] f = "undo" -> g.undo
            [] f = "scoreHome" -> scoreHomeAfter(g, last.side, ptsOf(neg))
            [] f = "scoreOpp" -> scoreOppAfter(g, last.side, ptsOf(neg))
            [] f = "history" -> historyWithout(g.history, last.historyId)]

undoPatch_keepsScore(g) ==
    LET last == Head(g.undo)
        rest == Tail(g.undo)
        neg == negate(last.delta)
        linesKey == linesKeyOf(last.side)
        curLines == g[linesKey]
        next == addDelta(lineOf(curLines, last.playerId), neg)
    IN [f \in {linesKey, "undo", "scoreHome", "scoreOpp", "history"} |->
          CASE f = linesKey -> withLine(curLines, last.playerId, next)
            [] f = "undo" -> rest
            [] f = "scoreHome" -> g.scoreHome
            [] f = "scoreOpp" -> g.scoreOpp
            [] f = "history" -> historyWithout(g.history, last.historyId)]

\* the patch undoLast hands to updateGame
undoPatch(g) ==
    LET last == Head(g.undo)
        rest == Tail(g.undo)
        neg == negate(last.delta)
        linesKey == linesKeyOf(last.side)
        curLines == g[linesKey]
        next == addDelta(lineOf(curLines, last.playerId), neg)
    IN [f \in {linesKey, "undo", "scoreHome", "scoreOpp", "history"} |->
          CASE f = linesKey -> withLine(curLines, last.playerId, next)
            [] f = "undo" -> rest
            [] f = "scoreHome" -> scoreHomeAfter(g, last.side, ptsOf(neg))
            [] f = "scoreOpp" -> scoreOppAfter(g, last.side, ptsOf(neg))
            [] f = "history" -> historyWithout(g.history, last.historyId)]

\* !activeGame || !activeGame.undo?.length
nothingToUndo == IF hasActiveGame THEN Len(activeGame.undo) = 0 ELSE TRUE

undoLast ==
    \/ /\ nothingToUndo
       /\ toast' = <<"Nothing to undo">>
       /\ UNCHANGED <<store, team, activeGameId, selected, clock>>
       /\ ran("undoNothing", NoEvent)
    \/ /\ ~nothingToUndo
       /\ store' = updateGame(undoPatch(activeGame))
       /\ toast' = <<"Undo: ", Head(activeGame.undo).label>>
       /\ saveEffect
       /\ lastOp' = [op |-> "undo",
                     ev |-> [side |-> Head(activeGame.undo).side,
                             playerId |-> Head(activeGame.undo).playerId,
                             delta |-> Head(activeGame.undo).delta,
                             label |-> Head(activeGame.undo).label]]
       /\ before' = store
       /\ origin' = (IF lastOp.op = "apply" THEN before ELSE NoStore)
       /\ clamped' = clamped
       /\ UNCHANGED <<team, activeGameId, selected, clock>>

\* the patch clearSelectedPlayer hands to updateGame
clearPlayerPatch(g, sel) ==
    LET linesKey == linesKeyOf(sel.side)
    IN [f \in {linesKey} |-> withLine(g[linesKey], sel.playerId, emptyLine)]

clearSelectedPlayer ==
    \/ /\ (IF hasActiveGame THEN selected = NoSelection ELSE TRUE)
       /\ UNCHANGED <<store, team, activeGameId, selected, toast, clock>>
       /\ ran("clearPlayerNothing", NoEvent)
    \/ /\ hasActiveGame
       /\ selected # NoSelection
       /\ store' = updateGame(clearPlayerPatch(activeGame, selected))
       /\ toast' = <<"Cleared player">>
       /\ ran("clearPlayer", NoEvent)
       /\ UNCHANGED <<team, activeGameId, selected, clock>>

clearGamePatch_keepsUndo(g) ==
    [linesHome |-> zeroLines(g.homeRosterIds),
     linesOpp |-> zeroLines(idsOf(g.oppRoster)),
     scoreHome |-> 0,
     scoreOpp |-> 0,
     history |-> <<>>,
     period |-> "Q1"]

\* the patch clearGameStats hands to updateGame
clearGamePatch(g) ==
    [linesHome |-> zeroLines(g.homeRosterIds),
     linesOpp |-> zeroLines(idsOf(g.oppRoster)),
     undo |-> <<>>,
     scoreHome |-> 0,
     scoreOpp |-> 0,
     history |-> <<>>,
     period |-> "Q1"]

clearGameStats ==
    \/ /\ ~hasActiveGame
       /\ UNCHANGED <<store, team, activeGameId, selected, toast, clock>>
       /\ ran("clearGameNothing", NoEvent)
    \/ /\ hasActiveGame
       /\ store' = updateGame(clearGamePatch(activeGame))
       /\ toast' = <<"Cleared game stats">>
       /\ ran("clearGame", NoEvent)
       /\ UNCHANGED <<team, activeGameId, selected, clock>>

----------------------------------------------------------------------------
(* Team switch, roster templates, and the details of the active game *)

\* the "Girls" / "Boys" buttons: setTeam(t); the auto-select effect runs on [team]
setTeam(t) ==
    /\ team' = t
    /\ settle(store, t, activeGameId, selected)
    /\ UNCHANGED <<store, toast, clock>>
    /\ moved("setTeam")

PlayerFields == {"no", "name", "ht", "cls", "pos"}

\* the template the roster editor shows: rosterMode "rustlers" or "opponent"
TemplateKinds == {"roster", "oppRoster"}

\* { ...p, ...patch }
mergePlayer(p, patch) == [f \in (DOMAIN p) \cup (DOMAIN patch) |-> IF f \in DOMAIN patch THEN patch[f] ELSE p[f]]

\* setRustlers(next) / setOppTemplate(next): the list of the current team is replaced
withTemplate(s, kind, t, next) == [s EXCEPT ![kind][t] = next]

\* RosterEditor.setPlayer(idx, patch), idx counted from 1
setPlayer(kind, idx, patch) ==
    /\ idx \in 1..Len(store[kind][team])
    /\ store' = withTemplate(store, kind, team,
                    [store[kind][team] EXCEPT ![idx] = mergePlayer(@, patch)])
    /\ moved("setPlayer")
    /\ UNCHANGED <<team, activeGameId, selected, toast, clock>>

\* !(p.no || p.name || p.ht || p.cls || p.pos)
isEmptyPlayer(p) == \A f \in PlayerFields : p[f] = ""

\* { ...p, no: "", name: "", ht: "", cls: "", pos: "" }
blanked(p) == [f \in DOMAIN p |-> IF f \in PlayerFields THEN "" ELSE p[f]]

\* mode "replace": row i of the paste over player i, players without a row are blanked
bulkReplace(list, parsed) ==
    [i \in 1..Len(list) |->
        IF i <= Len(parsed) THEN mergePlayer(list[i], parsed[i]) ELSE blanked(list[i])]

\* empty players among the first i of the list
emptyRank(list, i) == Cardinality({j \in 1..i : isEmptyPlayer(list[j])})

\* mode "fill": the rows of the paste go, in order, into the players that are empty
bulkFill(list, parsed) ==
    [i \in 1..Len(list) |->
        IF isEmptyPlayer(list[i]) /\ emptyRank(list, i) <= Len(parsed)
        THEN mergePlayer(list[i], parsed[emptyRank(list, i)])
        ELSE list[i]]

\* RosterEditor.applyBulk(mode); parsed is what parseRosterSmart made of the pasted text
applyBulk(kind, mode, parsed) ==
    \/ /\ Len(parsed) = 0
       /\ toast' = <<"Nothing recognized">>
       /\ UNCHANGED <<store, team, activeGameId, selected, clock>>
       /\ moved("applyBulkNothing")
    \/ /\ Len(parsed) > 0
       /\ store' = withTemplate(store, kind, team,
                       IF mode = "replace" THEN bulkReplace(store[kind][team], parsed)
                       ELSE bulkFill(store[kind][team], parsed))
       /\ toast' = <<"Imported ", ToString(Len(parsed)), " row(s)">>
       /\ moved(IF mode = "replace" THEN "applyBulkReplace" ELSE "applyBulkFill")
       /\ UNCHANGED <<team, activeGameId, selected, clock>>

\* activeGame.oppRoster.map(p => p.id === id ? { ...p, ...patch } : p)
oppRosterWith(oppRoster, id, patch) ==
    [i \in 1..Len(oppRoster) |->
        IF oppRoster[i].id = id THEN mergePlayer(oppRoster[i], patch) ELSE oppRoster[i]]

\* Live.setOppPlayer(id, patch): an opponent row of the active game is edited
setOppPlayer(id, patch) ==
    /\ hasActiveGame
    /\ id \in Range(idsOf(activeGame.oppRoster))
    /\ store' = updateGame([oppRoster |-> oppRosterWith(activeGame.oppRoster, id, patch)])
    /\ moved("setOppPlayer")
    /\ UNCHANGED <<team, activeGameId, selected, toast, clock>>

GameDetailFields == {"dateISO", "opponent", "location", "notes"}

\* the date / opponent / location / notes inputs: updateGame({ [field]: value })
setGameDetail(field, value) ==
    /\ hasActiveGame
    /\ store' = updateGame([f \in {field} |-> value])
    /\ moved("setGameDetail")
    /\ UNCHANGED <<team, activeGameId, selected, toast, clock>>

----------------------------------------------------------------------------
(* Season aggregator *)

gamesOfTeam_all(s, t) == s.games

\* store.games.filter(g => g.team === team)
gamesOfTeam(s, t) == SelectSeq(s.games, LAMBDA g : g.team = t)

\* for k of STAT_KEYS: totals[k] += line[k]
addLine(totals, line) == [k \in StatKeySet |-> totals[k] + line[k]]

\* homeTotals after the loop over the games
RECURSIVE seasonHomeTotals(_)
seasonHomeTotals(games) ==
    IF games = <<>> THEN emptyLine
    ELSE addLine(seasonHomeTotals(SubSeq(games, 1, Len(games) - 1)),
                 sumLines(games[Len(games)].linesHome, games[Len(games)].homeRosterIds))

\* oppTotals after the loop over the games
RECURSIVE seasonOppTotals(_)
seasonOppTotals(games) ==
    IF games = <<>> THEN emptyLine
    ELSE addLine(seasonOppTotals(SubSeq(games, 1, Len(games) - 1)),
                 sumLines(games[Len(games)].linesOpp, idsOf(games[Len(games)].oppRoster)))

\* Math.round((total / games) * 10) / 10, in tenths; 0 when there are no games
avgPerGame(total, games) ==
    IF games = 0 THEN 0 ELSE (20 * total + games) \div (2 * games)

\* the season of team t over the Store s
season(s, t) ==
    LET games == gamesOfTeam(s, t)
        gp == Len(games)
        homeTotals == seasonHomeTotals(games)
        oppTotals == seasonOppTotals(games)
    IN [gp |-> gp,
        homeTotals |-> homeTotals,
        oppTotals |-> oppTotals,
        homeAvgs |-> [k \in StatKeySet |-> avgPerGame(homeTotals[k], gp)],
        oppAvgs |-> [k \in StatKeySet |-> avgPerGame(oppTotals[k], gp)]]

----------------------------------------------------------------------------
(* The session: Store as loadStore returns it, no game active, nothing selected *)

\* the Store the session starts from: roster templates of RosterSize blank players
\* (n players for the girls' roster), opponent templates of OppSize blank players, no games
initialStore(n) ==
    [roster |-> [girls |-> makeBlankRoster(0, n),
                 boys |-> makeBlankRoster(RosterSize, RosterSize)],
     oppRoster |-> [girls |-> makeBlankRoster(2 * RosterSize, OppSize),
                    boys |-> makeBlankRoster(2 * RosterSize + OppSize, OppSize)],
     games |-> <<>>]

InitialUids == 2 * RosterSize + 2 * OppSize

\* the persisted roster of the first team is either empty or has RosterSize players
Init ==
    /\ \E n \in {0, RosterSize} : store = initialStore(n)
    /\ team = "girls"
    /\ activeGameId = Null
    /\ selected = NoSelection
    /\ toast = <<>>
    /\ clock = InitialUids
    /\ persisted = saveStore(store)
    /\ lastOp = [op |-> "init", ev |-> NoEvent]
    /\ before = NoStore
    /\ origin = NoStore
    /\ clamped = FALSE

Today == 1

\* uid() calls made by apply-events so far: every game drew one id per opponent
\* player and one for itself
eventsApplied == clock - InitialUids - Len(store.games) * (OppSize + 1)

\* one game is created and driven through the ledger
Next ==
    \/ (store.games = <<>> /\ ensureGame(Today))
    \/ changeGame
    \/ \E side \in SideKeys : \E playerId \in selectable(side) : selectPlayer(side, playerId)
    \/ \E btn \in AllButtons : (eventsApplied < MaxEvents /\ onTapStat(btn))
    \/ undoLast
    \/ clearSelectedPlayer
    \/ clearGameStats

Spec == Init /\ [][Next]_vars

\* one game, its period moved about while events are applied to the player the
\* game selected at its creation, and undone
NextPeriod ==
    \/ (store.games = <<>> /\ ensureGame(Today))
    \/ \E btn \in AllButtons : (eventsApplied < MaxPeriodEvents /\ onTapStat(btn))
    \/ undoLast
    \/ \E p \in Range(PERIODS) : setPeriod(p)
    \/ nextPeriod

SpecPeriod == Init /\ [][NextPeriod]_vars

\* one game driven by the forward buttons only, on any player of either side, with
\* undo, clear-game and changes of the period
NextForward ==
    \/ (store.games = <<>> /\ ensureGame(Today))
    \/ \E side \in SideKeys : \E playerId \in selectable(side) : selectPlayer(side, playerId)
    \/ \E btn \in ForwardButtons : (eventsApplied < MaxForwardEvents /\ onTapStat(btn))
    \/ undoLast
    \/ clearGameStats
    \/ \E p \in Range(SubSeq(PERIODS, 1, MaxForwardPeriods)) : setPeriod(p)
    \/ (hasActiveGame /\ indexOfPeriod(activeGame.period) + 1 < MaxForwardPeriods /\ nextPeriod)

SpecForward == Init /\ [][NextForward]_vars

\* one game driven by the forward buttons only, on any player of either side, with
\* undo, clear-player and clear-game
NextTally ==
    \/ (store.games = <<>> /\ ensureGame(Today))
    \/ \E side \in SideKeys : \E playerId \in selectable(side) : selectPlayer(side, playerId)
    \/ \E btn \in ForwardButtons : (eventsApplied < MaxTallyEvents /\ onTapStat(btn))
    \/ undoLast
    \/ clearSelectedPlayer
    \/ clearGameStats

SpecTally == Init /\ [][NextTally]_vars

----------------------------------------------------------------------------
(* The long run: one game, the first home player selected, the forward     *)
(* buttons tapped in catalog order MaxLongEvents times, then undone.       *)

\* apply-events made so far in the long run (each draws one uid after the game's)
longApplied == IF store.games = <<>> THEN 0 ELSE clock - store.games[1].id

\* the undo button has not been pressed yet
longApplying == lastOp.op \notin {"undo", "undoNothing"}

NextLong ==
    \/ (store.games = <<>> /\ ensureGame(Today))
    \/ /\ longApplying
       /\ longApplied < MaxLongEvents
       /\ onTapStat(statButtons[(longApplied % Len(statButtons)) + 1])
    \/ undoLast

SpecLong == Init /\ [][NextLong]_vars

----------------------------------------------------------------------------
(* Several games of both teams.  The session starts from the Store an      *)
(* earlier session left: the default Store, one game created in it and one *)
(* event applied.  Games are created, the team is switched, the roster     *)
(* templates and the details of the active game are edited, and events are *)
(* applied, undone and cleared.                                            *)

\* the Store after ensureGame and one tap of the first button, made from the default
\* Store for the given team and the first player of the given side
playedStore(t, side) ==
    LET s0 == initialStore(RosterSize)
        g0 == newGame(s0, t, Today, InitialUids)
        playerId == IF side = "home" THEN g0.homeRosterIds[1] ELSE g0.oppRoster[1].id
        g1 == mergeGame(g0, applyPatch(g0, side, playerId, statButtons[1].delta,
                                       statButtons[1].label, g0.id + 1))
    IN [s0 EXCEPT !.games = <<g1>>]

PlayedUids == InitialUids + OppSize + 2

\* activeGameId and selected once the effects of the first render have run on the
\* Store s and the team t
mounted(s, t) ==
    IF autoSelectCandidates(s, t) = {}
    THEN activeGameId = Null /\ selected = NoSelection
    ELSE \E id \in autoSelectCandidates(s, t) :
            /\ activeGameId = id
            /\ selected = firstHomeSelected(s, id, NoSelection)

InitPlayed ==
    /\ store = playedStore("girls", "home")
    /\ team = "girls"
    /\ mounted(store, team)
    /\ toast = <<>>
    /\ clock = PlayedUids
    /\ persisted = saveStore(store)
    /\ lastOp = [op |-> "init", ev |-> NoEvent]
    /\ before = NoStore
    /\ origin = NoStore
    /\ clamped = FALSE

\* the buttons tapped in this specification
GamesButtons == {statButtons[1], statButtons[7]}

\* what the user types into one field of a player row
FieldPatches == {[no |-> "7"], [name |-> "Ann"]}

\* rows as parseRosterSmart returns them: the five text fields, not all of them empty
rowA == [no |-> "7", name |-> "Ann", ht |-> "", cls |-> "", pos |-> ""]

rowB == [no |-> "", name |-> "Bo", ht |-> "", cls |-> "", pos |-> "G"]

\* results of parseRosterSmart for the pasted texts tried
BulkInputs == {<<>>, <<rowA>>, <<rowB, rowA>>}

\* what the user types into a detail field of the game
detailValues(field) == IF field = "dateISO" THEN {Today + 1} ELSE {"x"}

\* text fields of a player list that are filled in
filledFields(list) ==
    Cardinality({pf \in (1..Len(list)) \X PlayerFields : list[pf[1]][pf[2]] # ""})

\* details of a game that were edited
filledDetails(g) ==
    Cardinality({f \in GameDetailFields : g[f] # (IF f = "dateISO" THEN Today ELSE "")})

RECURSIVE gamesFilled(_)
gamesFilled(games) ==
    IF games = <<>> THEN 0
    ELSE filledFields(Head(games).oppRoster) + filledDetails(Head(games)) + gamesFilled(Tail(games))

\* text fields filled in in the four roster templates
templatesFilled ==
    filledFields(store.roster["girls"]) + filledFields(store.roster["boys"])
    + filledFields(store.oppRoster["girls"]) + filledFields(store.oppRoster["boys"])

\* text fields filled in anywhere in the Store
editsMade == templatesFilled + gamesFilled(store.games)

RECURSIVE periodsMoved(_)
periodsMoved(games) ==
    IF games = <<>> THEN 0
    ELSE Max2(0, indexOfPeriod(Head(games).period)) + periodsMoved(Tail(games))

\* what was done to the content of the Store: events applied, fields filled in,
\* periods moved on
activity == eventsApplied + editsMade + periodsMoved(store.games)

NextGames ==
    \/ (Len(store.games) < MaxGames /\ ensureGame(Today))
    \/ \E t \in TeamKeys : setTeam(t)
    \/ changeGame
    \/ \E side \in SideKeys : \E playerId \in selectable(side) : selectPlayer(side, playerId)
    \/ (activity < MaxActivity /\ \E btn \in GamesButtons : onTapStat(btn))
    \/ undoLast
    \/ clearSelectedPlayer
    \/ clearGameStats
    \/ (activity < MaxActivity /\ \E p \in Range(PERIODS) : setPeriod(p))
    \/ (activity < MaxActivity /\ nextPeriod)
    \/ (activity < MaxActivity /\ \E kind \in TemplateKinds : \E idx \in 1..RosterSize :
           \E patch \in FieldPatches : setPlayer(kind, idx, patch))
    \/ (activity < MaxActivity /\ \E kind \in TemplateKinds : \E mode \in {"replace", "fill"} :
           \E parsed \in BulkInputs : applyBulk(kind, mode, parsed))
    \/ (activity < MaxActivity /\ hasActiveGame /\ \E id \in Range(idsOf(activeGame.oppRoster)) :
           \E patch \in FieldPatches : setOppPlayer(id, patch))
    \/ (activity < MaxActivity /\ \E field \in GameDetailFields :
           \E value \in detailValues(field) : setGameDetail(field, value))

SpecGames == InitPlayed /\ [][NextGames]_vars

----------------------------------------------------------------------------
(* Game creation: games of both teams are created, one after the other,    *)
(* while the roster templates are edited in between.                       *)

NextCreate ==
    \/ (Len(store.games) < MaxCreated /\ ensureGame(Today))
    \/ \E t \in TeamKeys : setTeam(t)
    \/ changeGame
    \/ (templatesFilled < MaxTemplateFields /\ \E kind \in TemplateKinds : \E idx \in 1..RosterSize :
           \E patch \in FieldPatches : setPlayer(kind, idx, patch))
    \/ (templatesFilled < MaxTemplateFields /\ \E kind \in TemplateKinds : \E mode \in {"replace", "fill"} :
           \E parsed \in BulkInputs : applyBulk(kind, mode, parsed))

SpecCreate == Init /\ [][NextCreate]_vars

----------------------------------------------------------------------------
(* Store life cycle: loadStore and saveStore.                              *)
(*                                                                         *)
(* The content of localStorage under LS_KEY is [kind |-> "absent"] (getItem *)
(* returns null), [kind |-> "unparseable"] (JSON.parse throws) or           *)
(* [kind |-> "json", value |-> v], the JSON text standing for the value v   *)
(* it parses to.  An object is a function over the names of the fields it   *)
(* has.  loadStore tests the fields it migrates by type only (truthy,       *)
(* Array.isArray, typeof ... === "number") and overwrites what fails the    *)
(* test, so a field holding a value of another type is shown as a field     *)
(* that is missing.  Numbers are integers.                                  *)

\* g restricted to the fields of keep
restrict(g, keep) == [f \in (DOMAIN g) \cap keep |-> g[f]]

toLineAny_keepsNothing(obj) == [k \in StatKeySet |-> 0]

\* base[k] = typeof obj[k] === "number" ? obj[k] : 0; the zero line when obj is missing
toLineAny(obj) == [k \in StatKeySet |-> IF k \in DOMAIN obj THEN obj[k] ELSE 0]

\* g.linesHome?.[id]: the stored line, the function without keys when there is none
rawLineOf(g, key, id) ==
    IF key \in DOMAIN g THEN (IF id \in DOMAIN g[key] THEN g[key][id] ELSE <<>>) ELSE <<>>

\* for id of ids: lines[id] = toLineAny(g[key]?.[id])
normalizedLines(g, key, ids) == [id \in Range(ids) |-> toLineAny(rawLineOf(g, key, id))]

scoreOr_recomputed(g, field, pts) == pts

\* typeof g[field] === "number" ? g[field] : pts
scoreOr(g, field, pts) == IF field \in DOMAIN g THEN g[field] ELSE pts

\* Array.isArray(g[field]) ? g[field] : []
arrayOr(g, field) == IF field \in DOMAIN g THEN g[field] ELSE <<>>

\* g.period || "Q1"
periodOr(g) == IF "period" \in DOMAIN g THEN (IF g.period = "" THEN "Q1" ELSE g.period) ELSE "Q1"

\* one game of parsed.games as loadStore maps it
migrateGame(g) ==
    LET homeIds == arrayOr(g, "homeRosterIds")
        oppIds == IF "oppRoster" \in DOMAIN g THEN idsOf(g.oppRoster) ELSE <<>>
        linesHome == normalizedLines(g, "linesHome", homeIds)
        linesOpp == normalizedLines(g, "linesOpp", oppIds)
        homePts == sumLines(linesHome, homeIds)["pts"]
        oppPts == sumLines(linesOpp, oppIds)["pts"]
    IN mergeGame(g, [linesHome |-> linesHome,
                     linesOpp |-> linesOpp,
                     period |-> periodOr(g),
                     scoreHome |-> scoreOr(g, "scoreHome", homePts),
                     scoreOpp |-> scoreOr(g, "scoreOpp", oppPts),
                     history |-> arrayOr(g, "history"),
                     undo |-> arrayOr(g, "undo")])

\* { girls: makeBlankRoster("opT"), boys: makeBlankRoster("opT") }
blankOppRoster(first) ==
    [girls |-> makeBlankRoster(first, OppSize), boys |-> makeBlankRoster(first + OppSize, OppSize)]

\* the Store of the catch branch, its ids first+1 ..
defaultStore(first) ==
    [roster |-> [girls |-> makeBlankRoster(first, RosterSize),
                 boys |-> makeBlankRoster(first + RosterSize, RosterSize)],
     oppRoster |-> blankOppRoster(first + 2 * RosterSize),
     games |-> <<>>]

oppRosterEnsured_always(parsed, first) == mergeGame(parsed, [oppRoster |-> blankOppRoster(first)])

\* if (!parsed.oppRoster) parsed.oppRoster = { girls: ..., boys: ... }
oppRosterEnsured(parsed, first) ==
    IF "oppRoster" \in DOMAIN parsed THEN parsed
    ELSE mergeGame(parsed, [oppRoster |-> blankOppRoster(first)])

\* if (Array.isArray(parsed.games)) parsed.games = parsed.games.map(...)
gamesMigrated(parsed) ==
    IF "games" \in DOMAIN parsed
    THEN [f \in DOMAIN parsed |->
            IF f = "games" THEN [i \in 1..Len(parsed.games) |-> migrateGame(parsed.games[i])]
            ELSE parsed[f]]
    ELSE parsed

\* loadStore(), the ids it makes being first+1 ..
loadStore(raw, first) ==
    IF raw.kind = "json"
    THEN gamesMigrated(oppRosterEnsured(raw.value, first))
    ELSE defaultStore(first)

\* the calls of uid() loadStore makes
loadUids(raw) ==
    IF raw.kind = "json"
    THEN (IF "oppRoster" \in DOMAIN raw.value THEN 0 ELSE 2 * OppSize)
    ELSE 2 * RosterSize + 2 * OppSize

\* the render reads store.roster[team], store.oppRoster[team] and store.games
usable(s) == {"roster", "oppRoster", "games"} \subseteq DOMAIN s

----------------------------------------------------------------------------
(* Sessions that start from a persisted snapshot *)

\* the fields of a persisted game that loadStore can do without
OptionalGameFields ==
    {"homeRosterIds", "oppRoster", "linesHome", "linesOpp", "period",
     "scoreHome", "scoreOpp", "history", "undo"}

\* what a persisted game may hold as its period
StoredPeriods == {"", "Q3", "OT", "2H"}

\* the game an earlier session left, its first home player with a "+2"
playedGame == playedStore("girls", "home").games[1]

\* what a persisted line may hold as its points
StoredValues == {2, -1}

\* the same game with lines as an older version kept them: one key of the line of
\* the first home player, holding the number given, no line for anybody else
legacyLines(g, stored) ==
    [f \in DOMAIN g |->
        IF f = "linesHome" THEN [id \in {g.homeRosterIds[1]} |-> [pts |-> stored]]
        ELSE IF f = "linesOpp" THEN <<>>
        ELSE g[f]]

\* a persisted game: the played game with the lines, the stored number, the period
\* and the home score given, and the fields of keep only
storedGame(legacy, stored, period, scoreHome, keep) ==
    LET g == IF legacy THEN legacyLines(playedGame, stored) ELSE playedGame
        h == [f \in DOMAIN g |->
                IF f = "period" THEN period
                ELSE IF f = "scoreHome" THEN scoreHome
                ELSE g[f]]
    IN restrict(h, (DOMAIN h \ OptionalGameFields) \cup keep)

\* a persisted object with the fields of top, and the games given
storedObject(top, games) ==
    restrict([roster |-> initialStore(RosterSize).roster,
              oppRoster |-> initialStore(RosterSize).oppRoster,
              games |-> games], top)

InitLoad ==
    /\ \E kind \in {"absent", "unparseable", "json"} :
       \E top \in SUBSET {"roster", "oppRoster", "games"} :
       \E n \in 0..1 :
       \E legacy \in BOOLEAN :
       \E stored \in StoredValues :
       \E period \in StoredPeriods :
       \E scoreHome \in {2, 5} :
       \E keep \in SUBSET OptionalGameFields :
          before = IF kind = "json"
                   THEN [kind |-> "json",
                         value |-> storedObject(top,
                                      IF n = 0 THEN <<>>
                                      ELSE <<storedGame(legacy, stored, period, scoreHome, keep)>>)]
                   ELSE [kind |-> kind]
    /\ store = loadStore(before, PlayedUids)
    /\ clock = PlayedUids + loadUids(before)
    /\ team = "girls"
    /\ IF usable(store) THEN mounted(store, team)
       ELSE activeGameId = Null /\ selected = NoSelection
    /\ toast = <<>>
    /\ persisted = (IF usable(store) THEN saveStore(store) ELSE before)
    /\ lastOp = [op |-> "load", ev |-> NoEvent]
    /\ origin = NoStore
    /\ clamped = FALSE

\* the Store is saved and the page is loaded again
saveAndLoad ==
    /\ before' = saveStore(store)
    /\ store' = loadStore(before', clock)
    /\ clock' = clock + loadUids(before')
    /\ team' = "girls"
    /\ IF usable(store') THEN settle(store', "girls", Null, NoSelection)
       ELSE activeGameId' = Null /\ selected' = NoSelection
    /\ toast' = <<>>
    /\ persisted' = (IF usable(store') THEN saveStore(store') ELSE before')
    /\ lastOp' = [op |-> "saveAndLoad", ev |-> NoEvent]
    /\ origin' = NoStore
    /\ clamped' = clamped

NextLoad ==
    \/ saveAndLoad
    \/ nextPeriod

SpecLoad == InitLoad /\ [][NextLoad]_vars

----------------------------------------------------------------------------
(* Properties *)

\* every line a game stores, on either side
allLines(g) ==
    {g.linesHome[id] : id \in DOMAIN g.linesHome} \cup {g.linesOpp[id] : id \in DOMAIN g.linesOpp}

allGames == Range(store.games)

isStore(s) == "none" \notin DOMAIN s

\* the active game as the last ledger handler found it
prevGame == gameById(before, activeGameId)

\* the active game as it was before the apply-event that the last undo reversed
originGame == gameById(origin, activeGameId)

otherLinesKey(key) == IF key = "linesHome" THEN "linesOpp" ELSE "linesHome"

Max(a, b) == IF a > b THEN a ELSE b

\* the stored line of a player, the zero line when there is none
storedLine(g, side, playerId) ==
    IF playerId \in DOMAIN g[linesKeyOf(side)]
    THEN g[linesKeyOf(side)][playerId]
    ELSE [k \in StatKeySet |-> 0]

deltaPts(delta) == IF "pts" \in DOMAIN delta THEN delta["pts"] ELSE 0

sideScore(g, side) == IF side = "home" THEN g.scoreHome ELSE g.scoreOpp

lastApplied == lastOp.op = "apply" /\ hasActiveGame

lastUndone == lastOp.op = "undo" /\ hasActiveGame

\* the last two handlers were an apply-event and the undo of it
appliedThenUndone == lastUndone /\ isStore(origin)

\* C1: in every state reached from a newly created game by apply-event (forward or
\* correction, any side, any player), undo, clear-player and clear-game, each of
\* the 9 stat values of every player's line on both sides is >= 0
C1_NonNegative ==
    \A g \in allGames : \A l \in allLines(g) : \A k \in StatKeySet : l[k] >= 0

\* a correction was applied to a line whose value was too small for it, and was clamped
C1_Witness ==
    /\ lastApplied
    /\ \E k \in DOMAIN lastOp.ev.delta :
          /\ storedLine(prevGame, lastOp.ev.side, lastOp.ev.playerId)[k] + lastOp.ev.delta[k] < 0
          /\ storedLine(activeGame, lastOp.ev.side, lastOp.ev.playerId)[k] = 0

\* no key of the delta, and not its pts on the score, would go below 0 on game g
noClamp(g, ev) ==
    /\ \A k \in DOMAIN ev.delta : storedLine(g, ev.side, ev.playerId)[k] + ev.delta[k] >= 0
    /\ sideScore(g, ev.side) + deltaPts(ev.delta) >= 0

eventIds(history) == {history[i].id : i \in 1..Len(history)}

\* C2: when no value of the target's line and not the side's score would go below 0
\* under delta D, apply-event(D) directly followed by undo restores the target's
\* line and both scores to their values before the apply, and takes out of the
\* history exactly the one entry the apply created
C2_ApplyUndoRestores ==
    (appliedThenUndone /\ noClamp(originGame, lastOp.ev)) =>
        /\ storedLine(activeGame, lastOp.ev.side, lastOp.ev.playerId)
              = storedLine(originGame, lastOp.ev.side, lastOp.ev.playerId)
        /\ activeGame.scoreHome = originGame.scoreHome
        /\ activeGame.scoreOpp = originGame.scoreOpp
        /\ Len(prevGame.history) > 0
        /\ Head(prevGame.history).id \notin eventIds(originGame.history)
        /\ activeGame.history = Tail(prevGame.history)

\* a correction that did not clamp, on a line that had values, was applied and undone
C2_Witness ==
    /\ appliedThenUndone
    /\ noClamp(originGame, lastOp.ev)
    /\ deltaPts(lastOp.ev.delta) < 0
    /\ Len(originGame.history) > 0

\* C3: history never holds more than 500 entries and the undo stack never more than
\* 300; after n apply-events in a row on a new game history holds min(n, 500) and
\* undo min(n, 300) entries, the most recent events, newest first
C3_Bounds ==
    /\ \A g \in allGames : Len(g.history) <= 500 /\ Len(g.undo) <= 300
    /\ (store.games # <<>> /\ longApplying) =>
          LET g == store.games[1]
              n == longApplied
          IN /\ Len(g.history) = Min(n, 500)
             /\ Len(g.undo) = Min(n, 300)
             /\ \A i \in 1..Len(g.history) : g.history[i].id = g.id + n + 1 - i
             /\ \A i \in 1..Len(g.undo) : g.undo[i].historyId = g.id + n + 1 - i

\* 501 events were applied in a row: the oldest event is gone from the history
C3_Witness ==
    /\ store.games # <<>>
    /\ longApplying
    /\ longApplied = 501
    /\ Len(store.games[1].history) = 500
    /\ Len(store.games[1].undo) = 300

\* C4: apply-event(side, player, delta) sets the target's line to max(0, current +
\* delta[key]) for every key the delta carries and leaves the other keys as they
\* were, a player without a stored line counting as the zero line; the lines of
\* all other players on both sides stay as they were
C4_ApplySetsLine ==
    lastApplied =>
        LET ev == lastOp.ev
            key == linesKeyOf(ev.side)
            old == storedLine(prevGame, ev.side, ev.playerId)
        IN /\ ev.playerId \in DOMAIN activeGame[key]
           /\ \A k \in StatKeySet :
                 activeGame[key][ev.playerId][k] =
                    IF k \in DOMAIN ev.delta THEN Max(0, old[k] + ev.delta[k]) ELSE old[k]
           /\ DOMAIN activeGame[key] = DOMAIN prevGame[key] \cup {ev.playerId}
           /\ \A p \in DOMAIN prevGame[key] \ {ev.playerId} : activeGame[key][p] = prevGame[key][p]
           /\ activeGame[otherLinesKey(key)] = prevGame[otherLinesKey(key)]

\* an event was applied to a player whose line had a value under a key the delta
\* does not carry, while another player had a line that is not zero
C4_Witness ==
    /\ lastApplied
    /\ \E p \in (DOMAIN activeGame.linesHome \cup DOMAIN activeGame.linesOpp) \ {lastOp.ev.playerId} :
          storedLine(activeGame, "home", p) # emptyLine \/ storedLine(activeGame, "opp", p) # emptyLine
    /\ storedLine(activeGame, lastOp.ev.side, lastOp.ev.playerId) # emptyLine

\* C5: apply-event changes only the score of the side it is applied to, to
\* max(0, score + delta.pts); the other side's score stays, and an event without
\* pts (or with pts = 0) leaves both scores as they were; both scores are >= 0 in
\* every state
C5_Score ==
    /\ \A g \in allGames : g.scoreHome >= 0 /\ g.scoreOpp >= 0
    /\ lastApplied =>
          LET ev == lastOp.ev
              pts == deltaPts(ev.delta)
          IN /\ ev.side = "home" =>
                   /\ activeGame.scoreHome = Max(0, prevGame.scoreHome + pts)
                   /\ activeGame.scoreOpp = prevGame.scoreOpp
             /\ ev.side = "opp" =>
                   /\ activeGame.scoreOpp = Max(0, prevGame.scoreOpp + pts)
                   /\ activeGame.scoreHome = prevGame.scoreHome
             /\ pts = 0 =>
                   /\ activeGame.scoreHome = prevGame.scoreHome
                   /\ activeGame.scoreOpp = prevGame.scoreOpp

\* points were applied to the opponent side while the home side had a score
C5_Witness ==
    /\ lastApplied
    /\ lastOp.ev.side = "opp"
    /\ deltaPts(lastOp.ev.delta) # 0
    /\ prevGame.scoreHome > 0
    /\ activeGame.scoreHome > 0

\* the first n entries of a sequence, all of it when it is shorter
firstN(q, n) == [i \in 1..Min(n, Len(q)) |-> q[i]]

\* C6: every apply-event puts, in the one update that changes line and score,
\* exactly one history event at the head of the history and exactly one undo action
\* at the head of the undo stack; the event records the period of the game at that
\* moment, the side, the player id, the label, the delta as given and both scores
\* as they stand after the update; the undo action carries the same side, player
\* id and delta, and its historyId is the id of the new event
C6_ApplyLogsEvent ==
    lastApplied =>
        LET ev == lastOp.ev
            h == activeGame.history
            u == activeGame.undo
        IN /\ Len(h) = Min(Len(prevGame.history) + 1, 500)
           /\ Tail(h) = firstN(prevGame.history, 499)
           /\ Len(u) = Min(Len(prevGame.undo) + 1, 300)
           /\ Tail(u) = firstN(prevGame.undo, 299)
           /\ Head(h).id \notin eventIds(prevGame.history)
           /\ Head(h).period = prevGame.period
           /\ Head(h).period = activeGame.period
           /\ Head(h).side = ev.side
           /\ Head(h).playerId = ev.playerId
           /\ Head(h).label = ev.label
           /\ Head(h).delta = ev.delta
           /\ Head(h).homeScore = activeGame.scoreHome
           /\ Head(h).oppScore = activeGame.scoreOpp
           /\ Head(u).side = ev.side
           /\ Head(u).playerId = ev.playerId
           /\ Head(u).delta = ev.delta
           /\ Head(u).historyId = Head(h).id
           /\ storedLine(activeGame, ev.side, ev.playerId)
                 = [k \in StatKeySet |->
                      IF k \in DOMAIN ev.delta
                      THEN Max(0, storedLine(prevGame, ev.side, ev.playerId)[k] + ev.delta[k])
                      ELSE storedLine(prevGame, ev.side, ev.playerId)[k]]

\* points were applied in a later period, on top of an earlier event
C6_Witness ==
    /\ lastApplied
    /\ prevGame.period = "Q3"
    /\ Len(prevGame.history) = 1
    /\ Head(prevGame.history).period = "Q1"
    /\ deltaPts(lastOp.ev.delta) > 0
    /\ Len(activeGame.history) = 2

\* C7: undo is a one-shot stack: each undo pops the newest undo action and reverses
\* that event only, the rest of the stack staying in order; n <= 300 apply-events
\* with forward deltas on a new game followed by n undos bring every line, both
\* scores and the history back to their initial values, and one more undo changes
\* nothing
C7_UndoIsLifo ==
    /\ lastUndone =>
          LET last == Head(prevGame.undo)
              key == linesKeyOf(last.side)
          IN /\ activeGame.undo = Tail(prevGame.undo)
             /\ lastOp.ev.delta = last.delta
             /\ \A k \in StatKeySet :
                   storedLine(activeGame, last.side, last.playerId)[k] =
                      IF k \in DOMAIN last.delta
                      THEN Max(0, storedLine(prevGame, last.side, last.playerId)[k] - last.delta[k])
                      ELSE storedLine(prevGame, last.side, last.playerId)[k]
             /\ \A p \in DOMAIN prevGame[key] \ {last.playerId} : activeGame[key][p] = prevGame[key][p]
             /\ activeGame[otherLinesKey(key)] = prevGame[otherLinesKey(key)]
             /\ Len(activeGame.history) = Len(prevGame.history) - 1
    /\ (store.games # <<>> /\ ~longApplying /\ longApplied <= 300 /\ store.games[1].undo = <<>>) =>
          LET g == store.games[1]
          IN /\ \A l \in allLines(g) : l = [k \in StatKeySet |-> 0]
             /\ g.scoreHome = 0
             /\ g.scoreOpp = 0
             /\ g.history = <<>>
    /\ (lastOp.op = "undoNothing") => store = before

\* 300 events were applied, 300 undos followed, and undo was pressed once more
C7_Witness ==
    /\ lastOp.op = "undoNothing"
    /\ store.games # <<>>
    /\ longApplied = 300

\* C8: undo with an empty undo stack or without an active game, and a tap on a stat
\* button while no player is selected or without an active game, leave the whole
\* Store as it was
C8_NothingToDo ==
    /\ (lastOp.op \in {"apply", "tapNoGame", "tapNoPlayer"}
          /\ (selected = NoSelection \/ ~hasActiveGame)) => store = before
    /\ (lastOp.op \in {"undo", "undoNothing"}
          /\ (IF gameIndex(before.games, activeGameId) = {} THEN TRUE
              ELSE prevGame.undo = <<>>)) => store = before

\* a stat button was tapped on an active game with no player selected
C8_Witness ==
    /\ lastOp.op = "tapNoPlayer"
    /\ hasActiveGame
    /\ selected = NoSelection
    /\ activeGame.undo = <<>>

\* C9: when the apply of a negative delta was clamped at 0, the undo that follows
\* still adds back the whole delta, so the value ends above the one before the
\* apply (0 becomes 1); apply and undo both complete as updates and the undo entry
\* is used up
C9_ClampedUndoOvershoots ==
    appliedThenUndone =>
        /\ \A k \in DOMAIN lastOp.ev.delta :
              LET old == storedLine(originGame, lastOp.ev.side, lastOp.ev.playerId)[k]
                  mid == storedLine(prevGame, lastOp.ev.side, lastOp.ev.playerId)[k]
                  now == storedLine(activeGame, lastOp.ev.side, lastOp.ev.playerId)[k]
              IN old + lastOp.ev.delta[k] < 0 =>
                    /\ mid = 0
                    /\ now = 0 - lastOp.ev.delta[k]
                    /\ now # old
        /\ activeGame.undo = Tail(prevGame.undo)
        /\ Len(prevGame.undo) = Min(Len(originGame.undo) + 1, 300)

\* a turnover correction on a line without turnovers was applied and undone
C9_Witness ==
    /\ appliedThenUndone
    /\ "to" \in DOMAIN lastOp.ev.delta
    /\ lastOp.ev.delta["to"] = -1
    /\ storedLine(originGame, lastOp.ev.side, lastOp.ev.playerId)["to"] = 0
    /\ storedLine(activeGame, lastOp.ev.side, lastOp.ev.playerId)["to"] = 1

\* C10: clear-player sets the line of the selected player, in the line mapping of
\* the selected side of the active game, to the zero line and changes nothing else:
\* scores, history, undo stack, period, every other line on both sides and the
\* rosters stay as they were
C10_ClearPlayerFrame ==
    (lastOp.op = "clearPlayer") =>
        LET key == linesKeyOf(selected.side)
        IN /\ hasActiveGame
           /\ DOMAIN activeGame[key] = DOMAIN prevGame[key] \cup {selected.playerId}
           /\ activeGame[key][selected.playerId] = [k \in StatKeySet |-> 0]
           /\ \A p \in DOMAIN prevGame[key] \ {selected.playerId} : activeGame[key][p] = prevGame[key][p]
           /\ \A f \in DOMAIN activeGame \ {key} : activeGame[f] = prevGame[f]
           /\ DOMAIN activeGame = DOMAIN prevGame
           /\ store.roster = before.roster
           /\ store.oppRoster = before.oppRoster
           /\ Len(store.games) = Len(before.games)
           /\ \A i \in 1..Len(store.games) :
                 store.games[i].id # activeGameId => store.games[i] = before.games[i]

\* a player with points was cleared while score, history and another line stood
C10_Witness ==
    /\ lastOp.op = "clearPlayer"
    /\ hasActiveGame
    /\ storedLine(prevGame, selected.side, selected.playerId)["pts"] > 0
    /\ activeGame.scoreHome + activeGame.scoreOpp > 0
    /\ Len(activeGame.history) = 2
    /\ \E l \in allLines(activeGame) : l # emptyLine

\* the fields of a game that clear-game is to leave alone
GameIdentityFields ==
    {"id", "team", "homeRosterIds", "oppRoster", "dateISO", "opponent", "location", "notes"}

\* the active game as clear-game left it
C11_Cleared ==
    (lastOp.op = "clearGame") =>
        /\ hasActiveGame
        /\ \A id \in Range(activeGame.homeRosterIds) :
              id \in DOMAIN activeGame.linesHome /\ activeGame.linesHome[id] = [k \in StatKeySet |-> 0]
        /\ \A id \in Range(idsOf(activeGame.oppRoster)) :
              id \in DOMAIN activeGame.linesOpp /\ activeGame.linesOpp[id] = [k \in StatKeySet |-> 0]
        /\ activeGame.scoreHome = 0
        /\ activeGame.scoreOpp = 0
        /\ activeGame.history = <<>>
        /\ activeGame.undo = <<>>
        /\ activeGame.period = PERIODS[1]
        /\ activeGame.period = "Q1"
        /\ \A f \in GameIdentityFields : activeGame[f] = prevGame[f]

\* an undo pressed right after clear-game
C11_UndoAfterClear ==
    (lastOp.op = "clearGame" /\ lastOp'.op \in {"undo", "undoNothing"}) =>
        /\ lastOp'.op = "undoNothing"
        /\ store' = store

\* C11: clear-game leaves the active game with a zero line for every id in
\* homeRosterIds and every opponent-roster id, scores 0-0, empty history, empty undo
\* stack and the period "Q1", the first of the period sequence, while id, team,
\* homeRosterIds, opponent roster, date, opponent name, location and notes stay as
\* they were; an undo right after clear-game changes nothing
C11_ClearGame == [](C11_Cleared) /\ [][C11_UndoAfterClear]_vars

\* a game in a later period, with an event in its history and on its undo stack and
\* points on the board, was cleared
C11_Witness ==
    /\ lastOp.op = "clearGame"
    /\ hasActiveGame
    /\ prevGame.period # "Q1"
    /\ prevGame.history # <<>>
    /\ prevGame.undo # <<>>
    /\ prevGame.scoreHome > 0
    /\ \E l \in allLines(prevGame) : l # emptyLine

\* the text fields of two players agree
sameFields(p, q) == \A f \in PlayerFields : p[f] = q[f]

\* every id of the list has a line among lines, a zero line, and no other id has one
zeroLinesFor(lines, ids) ==
    /\ DOMAIN lines = Range(ids)
    /\ \A id \in Range(ids) : lines[id] = [k \in StatKeySet |-> 0]

gameIds(games) == {games[i].id : i \in 1..Len(games)}

\* one step of create-game
C12_Step ==
    (lastOp'.op = "ensureGame") =>
        LET g == store'.games[1]
            template == store.oppRoster[team]
        IN /\ store'.games = <<g>> \o store.games
           /\ g.id \notin gameIds(store.games)
           /\ g.homeRosterIds = idsOf(store.roster[team])
           /\ Len(g.oppRoster) = Len(template)
           /\ \A i \in 1..Len(template) : sameFields(g.oppRoster[i], template[i])
           /\ zeroLinesFor(g.linesHome, g.homeRosterIds)
           /\ zeroLinesFor(g.linesOpp, idsOf(g.oppRoster))
           /\ g.period = "Q1"
           /\ g.scoreHome = 0
           /\ g.scoreOpp = 0
           /\ g.history = <<>>
           /\ g.undo = <<>>
           /\ activeGameId' = g.id
           /\ store'.roster = store.roster
           /\ store'.oppRoster = store.oppRoster

\* C12: create-game makes a game whose homeRosterIds are the ids of the current
\* team's roster template in their order, whose opponent roster has one player per
\* player of the opponent template with the same field values, whose linesHome and
\* linesOpp hold a zero line for exactly the ids of their side, with period "Q1",
\* scores 0-0 and empty history and undo; the game goes to the head of the game
\* list, the earlier games follow in their order, and it becomes the active game
C12_CreateGame == [][C12_Step]_vars

\* a third game was created from an opponent template with filled-in fields
C12_Witness ==
    /\ lastOp.op = "ensureGame"
    /\ Len(store.games) = 3
    /\ activeGameId = store.games[1].id
    /\ store.games[1].homeRosterIds # <<>>
    /\ \E i \in 1..Len(store.games[1].oppRoster) : ~isEmptyPlayer(store.games[1].oppRoster[i])
    /\ store.games[2].team # store.games[3].team

templateIds(s) ==
    UNION {Range(idsOf(s.oppRoster[t])) \cup Range(idsOf(s.roster[t])) : t \in TeamKeys}

\* the opponent ids of the games are their own
C13_FreshIds ==
    \A i \in 1..Len(store.games) :
        /\ Range(idsOf(store.games[i].oppRoster)) \cap templateIds(store) = {}
        /\ \A j \in 1..Len(store.games) :
              i # j => Range(idsOf(store.games[i].oppRoster))
                          \cap Range(idsOf(store.games[j].oppRoster)) = {}
        /\ Cardinality(Range(idsOf(store.games[i].oppRoster))) = Len(store.games[i].oppRoster)

\* one edit in the roster editor
C13_TemplateEdit ==
    (lastOp'.op \in {"setPlayer", "applyBulkReplace", "applyBulkFill", "applyBulkNothing"}) =>
        /\ Len(store'.games) = Len(store.games)
        /\ \A i \in 1..Len(store.games) : store'.games[i].oppRoster = store.games[i].oppRoster

\* C13: the opponent players of a created game have ids that no opponent-template
\* player and no other game's opponent has, and an edit of the opponent template
\* (one field, bulk replace, bulk fill) leaves the opponent roster of every game
\* created before as it was
C13_OpponentSnapshot == [](C13_FreshIds) /\ [][C13_TemplateEdit]_vars

\* the opponent template of the team was replaced in bulk after a game of the team
\* was created from it, and now differs from the game's roster
C13_Witness ==
    /\ lastOp.op = "applyBulkReplace"
    /\ \E i \in 1..Len(store.games) :
          /\ store.games[i].team = team
          /\ \E j \in 1..Len(store.games[i].oppRoster) :
                /\ ~isEmptyPlayer(store.games[i].oppRoster[j])
                /\ ~sameFields(store.games[i].oppRoster[j], store.oppRoster[team][j])

\* the handlers that work on the active game
GameScopedOps ==
    {"apply", "undo", "clearPlayer", "clearGame", "setPeriod", "nextPeriod",
     "setOppPlayer", "setGameDetail"}

\* one step of a handler that works on the active game
C14_Step ==
    (lastOp'.op \in GameScopedOps) =>
        /\ activeGameId' = activeGameId
        /\ store'.roster = store.roster
        /\ store'.oppRoster = store.oppRoster
        /\ Len(store'.games) = Len(store.games)
        /\ \A i \in 1..Len(store.games) :
              /\ store'.games[i].id = store.games[i].id
              /\ store.games[i].id # activeGameId => store'.games[i] = store.games[i]
              /\ idsOf(store'.games[i].oppRoster) = idsOf(store.games[i].oppRoster)

\* C14: apply-event, undo, clear-player, clear-game, set and advance period, the
\* in-game edit of an opponent player and the edit of date, opponent, location and
\* notes change the active game only: every other game, the roster templates and
\* the opponent templates stay as they were, and the in-game edit of an opponent
\* player never changes the id of a player
C14_ActiveGameOnly == [][C14_Step]_vars

\* an opponent player of the active game was edited while the Store held another
\* game with an event in its history
C14_Witness ==
    /\ lastOp.op = "setOppPlayer"
    /\ hasActiveGame
    /\ \E j \in 1..Len(activeGame.oppRoster) : ~isEmptyPlayer(activeGame.oppRoster[j])
    /\ \E i \in 1..Len(store.games) :
          /\ store.games[i].id # activeGameId
          /\ store.games[i].history # <<>>
          /\ \A j \in 1..Len(store.games[i].oppRoster) : isEmptyPlayer(store.games[i].oppRoster[j])

\* the ids on a side of a game
sideIds(g, side) == IF side = "home" THEN Range(g.homeRosterIds) ELSE Range(idsOf(g.oppRoster))

\* C15: in every state reached from the default Store by game creation, edits of
\* the roster templates (one field, bulk replace, bulk fill), in-game edits of the
\* opponent roster and the ledger operations, for every game: every id of
\* homeRosterIds is the id of a player of the roster template of the game's team,
\* the keys of linesHome are the ids of homeRosterIds, the keys of linesOpp are the
\* ids of the game's opponent roster, and every history event and every undo action
\* is about a player id that its side of the game holds
C15_Referential ==
    \A i \in 1..Len(store.games) :
        LET g == store.games[i]
        IN /\ Range(g.homeRosterIds) \subseteq Range(idsOf(store.roster[g.team]))
           /\ DOMAIN g.linesHome = Range(g.homeRosterIds)
           /\ DOMAIN g.linesOpp = Range(idsOf(g.oppRoster))
           /\ \A j \in 1..Len(g.history) : g.history[j].playerId \in sideIds(g, g.history[j].side)
           /\ \A j \in 1..Len(g.undo) : g.undo[j].playerId \in sideIds(g, g.undo[j].side)

\* the roster template of a team was replaced in bulk while a game of the team had
\* an event of one of its players in the history, next to a game of the other team
C15_Witness ==
    /\ lastOp.op = "applyBulkReplace"
    /\ Len(store.games) = 2
    /\ store.games[1].team # store.games[2].team
    /\ \E i \in 1..Len(store.games) :
          LET g == store.games[i]
          IN /\ g.history # <<>>
             /\ g.history[1].side = "home"
             /\ \E j \in 1..Len(store.roster[g.team]) :
                   /\ store.roster[g.team][j].id = g.history[1].playerId
                   /\ ~isEmptyPlayer(store.roster[g.team][j])

\* the sum of f over the finite set S
RECURSIVE SumOver(_, _)
SumOver(S, f) ==
    IF S = {} THEN 0
    ELSE LET x == CHOOSE y \in S : TRUE IN f[x] + SumOver(S \ {x}, f)

\* the positions <<game, player>> of the home ids of the games of team t
homeCells(t) ==
    {c \in (1..Len(store.games)) \X (1..RosterSize) :
        store.games[c[1]].team = t /\ c[2] <= Len(store.games[c[1]].homeRosterIds)}

\* the positions <<game, player>> of the opponent players of the games of team t
oppCells(t) ==
    {c \in (1..Len(store.games)) \X (1..OppSize) :
        store.games[c[1]].team = t /\ c[2] <= Len(store.games[c[1]].oppRoster)}

homeStat(k) ==
    [c \in (1..Len(store.games)) \X (1..RosterSize) |->
        IF c[2] <= Len(store.games[c[1]].homeRosterIds)
        THEN storedLine(store.games[c[1]], "home", store.games[c[1]].homeRosterIds[c[2]])[k]
        ELSE 0]

oppStat(k) ==
    [c \in (1..Len(store.games)) \X (1..OppSize) |->
        IF c[2] <= Len(store.games[c[1]].oppRoster)
        THEN storedLine(store.games[c[1]], "opp", store.games[c[1]].oppRoster[c[2]].id)[k]
        ELSE 0]

\* C16: for each team, each of the 9 season home totals is the sum, over the games
\* of that team, of the stat over the lines of the game's homeRosterIds, and each
\* opponent total the same over the ids of the game's opponent roster; games of the
\* other team add nothing; a team without games has game count 0, all 18 totals 0
\* and all 18 averages 0
C16_Season ==
    \A t \in TeamKeys :
        LET se == season(store, t)
            mine == {i \in 1..Len(store.games) : store.games[i].team = t}
        IN /\ se.gp = Cardinality(mine)
           /\ \A k \in StatKeySet :
                 /\ se.homeTotals[k] = SumOver(homeCells(t), homeStat(k))
                 /\ se.oppTotals[k] = SumOver(oppCells(t), oppStat(k))
           /\ mine = {} =>
                 /\ se.gp = 0
                 /\ \A k \in StatKeySet :
                       /\ se.homeTotals[k] = 0
                       /\ se.oppTotals[k] = 0
                       /\ se.homeAvgs[k] = 0
                       /\ se.oppAvgs[k] = 0

\* two games of one team with points in both, one of them for the opponent, and no
\* game of the other team
C16_Witness ==
    /\ Len(store.games) = 2
    /\ store.games[1].team = "girls"
    /\ store.games[2].team = "girls"
    /\ store.games[1].scoreOpp = 2
    /\ store.games[2].scoreHome = 2
    /\ season(store, "girls").homeTotals["pts"] = 2
    /\ season(store, "girls").oppTotals["pts"] = 2
    /\ season(store, "girls").homeAvgs["pts"] = 10
    /\ season(store, "boys").gp = 0

\* one step of advance-period
C17_Step ==
    (lastOp'.op = "nextPeriod") =>
        LET p == activeGame.period
            q == activeGame'.period
        IN /\ p = "Q1" => q = "Q2"
           /\ p = "Q2" => q = "Q3"
           /\ p = "Q3" => q = "Q4"
           /\ p = "Q4" => q = "OT"
           /\ p = "OT" => q = "OT"
           /\ p \notin {"Q1", "Q2", "Q3", "Q4", "OT"} => q = "Q1"
           /\ p \in Range(PERIODS) => indexOfPeriod(q) >= indexOfPeriod(p)

\* C17: advance-period moves the period of the active game from Q1 to Q2, Q2 to Q3,
\* Q3 to Q4, Q4 to OT, leaves OT at OT however often it is called, and moves a
\* label that is not in the period sequence to Q1; no advance-period moves the
\* period backwards in the sequence
C17_AdvancePeriod == [][C17_Step]_vars

\* advance-period arrived at Q1, which it does from a label outside the sequence only
C17_Witness ==
    /\ lastOp.op = "nextPeriod"
    /\ hasActiveGame
    /\ activeGame.period = "Q1"

\* C18: load returns a usable Store whatever the persisted snapshot is: absent,
\* unparseable, or an object with any of the fields roster, oppRoster and games;
\* the Store has a roster template and an opponent template for both teams and a
\* list of games
C18_LoadUsable ==
    (lastOp.op = "load") =>
        /\ {"roster", "oppRoster", "games"} \subseteq DOMAIN store
        /\ TeamKeys \subseteq DOMAIN store.roster
        /\ TeamKeys \subseteq DOMAIN store.oppRoster
        /\ Len(store.games) >= 0

RECURSIVE ptsOver(_, _)
ptsOver(lines, ids) ==
    IF ids = <<>> THEN 0 ELSE lines[Head(ids)]["pts"] + ptsOver(lines, Tail(ids))

loadedHomeIds(g) == IF "homeRosterIds" \in DOMAIN g THEN g.homeRosterIds ELSE <<>>

loadedOppIds(g) == IF "oppRoster" \in DOMAIN g THEN idsOf(g.oppRoster) ELSE <<>>

\* the persisted snapshot held games
loadedGames == lastOp.op = "load" /\ before.kind = "json" /\ "games" \in DOMAIN before.value

\* C20: for every game of a loaded snapshot whose scoreHome (scoreOpp) is not a
\* number, the scoreHome (scoreOpp) of the loaded game is the sum of pts over the
\* normalized lines of homeRosterIds (the ids of the opponent roster); a score that
\* is a number stays as stored, also when it is not that sum
C20_LoadedScores ==
    loadedGames =>
        \A i \in 1..Len(before.value.games) :
            LET raw == before.value.games[i]
                g == store.games[i]
            IN /\ "scoreHome" \notin DOMAIN raw =>
                     g.scoreHome = ptsOver(g.linesHome, loadedHomeIds(g))
               /\ "scoreOpp" \notin DOMAIN raw =>
                     g.scoreOpp = ptsOver(g.linesOpp, loadedOppIds(g))
               /\ "scoreHome" \in DOMAIN raw => g.scoreHome = raw.scoreHome
               /\ "scoreOpp" \in DOMAIN raw => g.scoreOpp = raw.scoreOpp

\* a game without scoreHome, its lines kept the old way, was loaded with the points
\* of its home players as the score
C20_Witness ==
    /\ loadedGames
    /\ Len(before.value.games) = 1
    /\ "scoreHome" \notin DOMAIN before.value.games[1]
    /\ "linesHome" \in DOMAIN before.value.games[1]
    /\ before.value.games[1].linesHome # store.games[1].linesHome
    /\ store.games[1].scoreHome = 2

\* the line that load is to make of what the snapshot holds for a player: the stored
\* number under every key that has one, 0 under every other key
expectedLine(raw, key, id) ==
    [k \in StatKeySet |->
        IF key \in DOMAIN raw
        THEN (IF id \in DOMAIN raw[key]
              THEN (IF k \in DOMAIN raw[key][id] THEN raw[key][id][k] ELSE 0)
              ELSE 0)
        ELSE 0]

\* C21: after load every game has in linesHome a line for every id of its
\* homeRosterIds and in linesOpp one for every id of its opponent roster, each line
\* with all 9 stat keys; a stored number is kept, a missing line is the zero line,
\* a key without a number is 0; a missing period is "Q1", a missing history or undo
\* stack is the empty list
C21_LoadNormalizes ==
    loadedGames =>
        /\ Len(store.games) = Len(before.value.games)
        /\ \A i \in 1..Len(before.value.games) :
              LET raw == before.value.games[i]
                  g == store.games[i]
              IN /\ \A id \in Range(loadedHomeIds(raw)) :
                       /\ id \in DOMAIN g.linesHome
                       /\ DOMAIN g.linesHome[id] = StatKeySet
                       /\ g.linesHome[id] = expectedLine(raw, "linesHome", id)
                 /\ \A id \in Range(loadedOppIds(raw)) :
                       /\ id \in DOMAIN g.linesOpp
                       /\ DOMAIN g.linesOpp[id] = StatKeySet
                       /\ g.linesOpp[id] = expectedLine(raw, "linesOpp", id)
                 /\ "period" \notin DOMAIN raw => g.period = "Q1"
                 /\ "history" \notin DOMAIN raw => g.history = <<>>
                 /\ "undo" \notin DOMAIN raw => g.undo = <<>>

\* a game was loaded that had one key of one home line stored, no line for the
\* other home player, no opponent lines at all, no period and no history
C21_Witness ==
    /\ loadedGames
    /\ Len(before.value.games) = 1
    /\ LET raw == before.value.games[1]
       IN /\ {"homeRosterIds", "oppRoster", "linesHome"} \subseteq DOMAIN raw
          /\ DOMAIN raw.linesHome = {raw.homeRosterIds[1]}
          /\ DOMAIN raw.linesHome[raw.homeRosterIds[1]] = {"pts"}
          /\ "linesOpp" \notin DOMAIN raw
          /\ "period" \notin DOMAIN raw
          /\ "history" \notin DOMAIN raw
          /\ store.games[1].linesHome[raw.homeRosterIds[1]]["pts"] = 2
          /\ store.games[1].linesHome[raw.homeRosterIds[2]] = [k \in StatKeySet |-> 0]
          /\ store.games[1].linesOpp[raw.oppRoster[1].id] = [k \in StatKeySet |-> 0]

\* C22: every stat value of every line of every game is >= 0 right after load,
\* for every snapshot that load accepts, the stored line values being any numbers
C22_LoadNonNegative ==
    loadedGames =>
        \A g \in allGames : \A l \in allLines(g) : \A k \in StatKeySet : l[k] >= 0

\* between two handlers the persisted snapshot is the serialization of the Store
C23_InSync ==
    /\ persisted.kind = "json"
    /\ persisted = saveStore(store)
    /\ persisted.value = store

\* one handler: a changed Store is written out whole, and nothing else is written
C23_Rewritten ==
    /\ store' # store => persisted' = [kind |-> "json", value |-> store']
    /\ persisted' # persisted => persisted'.value = store'

\* C23: after every mutation of the Store (apply-event, undo, clear, period change,
\* roster or opponent edit, game creation) the persisted snapshot is rewritten to
\* the serialization of the whole Store: between operations the snapshot equals the
\* Store, and the snapshot never holds a value the Store did not have
C23_SaveOnMutation == [](C23_InSync) /\ [][C23_Rewritten]_vars

\* the roster template was replaced in bulk in a Store with two games, one of them
\* with an event, and the snapshot holds all of it
C23_Witness ==
    /\ lastOp.op = "applyBulkReplace"
    /\ persisted.kind = "json"
    /\ Len(persisted.value.games) = 2
    /\ \E i \in 1..2 : persisted.value.games[i].history # <<>>
    /\ \E t \in TeamKeys : \E i \in 1..Len(persisted.value.roster[t]) :
          ~isEmptyPlayer(persisted.value.roster[t][i])

\* one step: the games of before are all there after it, in their order, at the
\* end of the list, each with its id and its team
C24_Step ==
    /\ Len(store'.games) >= Len(store.games)
    /\ \A i \in 1..Len(store.games) :
          LET j == i + (Len(store'.games) - Len(store.games))
          IN /\ store'.games[j].id = store.games[i].id
             /\ store'.games[j].team = store.games[i].team

\* C24: no operation removes a game: the list of games never gets shorter, every
\* game stays in it with its id and its team, and the games that were there stay
\* in the order they had
C24_GamesKept == [][C24_Step]_vars

\* an event was applied and undone in the second game created, a game of the other
\* team, the first game still following it with its event
C24_Witness ==
    /\ lastOp.op = "undo"
    /\ Len(store.games) = 2
    /\ store.games[1].team # store.games[2].team
    /\ activeGameId = store.games[1].id
    /\ store.games[2].id = playedGame.id
    /\ store.games[2].history # <<>>

\* the undo stack of a game lies along the head of its history
aligned(g) ==
    /\ Len(g.undo) <= Len(g.history)
    /\ \A i \in 1..Len(g.undo) : g.undo[i].historyId = g.history[i].id

\* C25: in every state reached from a newly created game the undo stack is aligned
\* with the head of the history: it is never longer than the history and
\* undo[i].historyId = history[i].id at every position i of the stack; so every
\* undo takes the head entry off the history, and the search for the entry
\* elsewhere in the history is never needed
C25_UndoAligned ==
    /\ \A g \in allGames : aligned(g)
    /\ lastUndone =>
          /\ prevGame.history # <<>>
          /\ Head(prevGame.undo).historyId # Null
          /\ Head(prevGame.history).id = Head(prevGame.undo).historyId
          /\ activeGame.history = Tail(prevGame.history)
          /\ activeGame.undo = Tail(prevGame.undo)

\* the first undo after 501 events: the history had dropped its oldest event and
\* was 200 entries longer than the undo stack
C25_Witness ==
    /\ lastUndone
    /\ longApplied = 501
    /\ Len(prevGame.history) = 500
    /\ Len(prevGame.undo) = 300
    /\ Len(activeGame.history) = 499
    /\ Len(activeGame.undo) = 299

\* the scores the newest event of the history recorded are the scores of the game
headScoresCurrent(g) ==
    g.history # <<>> =>
        /\ Head(g.history).homeScore = g.scoreHome
        /\ Head(g.history).oppScore = g.scoreOpp

\* C27 as stated: whenever the history of a game is not empty, the scores recorded
\* in its newest event are the current scoreHome and scoreOpp, after any sequence
\* of apply-event (forward or correction), undo, clear-player and clear-game
C27_HeadScores == \A g \in allGames : headScoresCurrent(g)

\* C27 as amended: the same, for every sequence in which no apply-event had its
\* points clamped on the score (the score of its side plus delta.pts was never
\* below 0); after the undo of a clamped correction the score is above the one the
\* newest event recorded
C27_HeadScoresUnclamped == ~clamped => \A g \in allGames : headScoresCurrent(g)

\* a correction that the score could take was applied on top of an event and undone
C27_Witness ==
    /\ ~clamped
    /\ appliedThenUndone
    /\ deltaPts(lastOp.ev.delta) < 0
    /\ activeGame.history # <<>>
    /\ Head(activeGame.history).homeScore + Head(activeGame.history).oppScore > 0

\* C26: in a game made by create-game and driven by forward buttons, undo,
\* clear-game and changes of the period only, in every state scoreHome is the sum
\* of pts over the lines of the home players and scoreOpp the sum of pts over the
\* lines of the opponent players
C26_ScoreIsSumOfPts ==
    \A g \in allGames :
        /\ g.scoreHome = sumLines(g.linesHome, g.homeRosterIds)["pts"]
        /\ g.scoreOpp = sumLines(g.linesOpp, idsOf(g.oppRoster))["pts"]
        /\ g.scoreHome = SumOver(DOMAIN g.linesHome, [id \in DOMAIN g.linesHome |-> g.linesHome[id]["pts"]])
        /\ g.scoreOpp = SumOver(DOMAIN g.linesOpp, [id \in DOMAIN g.linesOpp |-> g.linesOpp[id]["pts"]])

\* an event was undone in a later period, the points of a home player standing
C26_Witness ==
    /\ lastUndone
    /\ activeGame.period # "Q1"
    /\ activeGame.scoreHome > 0
    /\ \E id \in DOMAIN activeGame.linesHome :
          /\ activeGame.linesHome[id]["pts"] > 0
          /\ activeGame.linesHome[id]["pts"] = activeGame.scoreHome
    /\ prevGame.scoreHome + prevGame.scoreOpp > activeGame.scoreHome

\* what the forward buttons keep true of a line
consistentLine(l) ==
    /\ l["pts"] = 2 * l["fgm"] + l["tpm"] + l["ftm"]
    /\ l["tpm"] <= l["fgm"]
    /\ l["fgm"] <= l["fga"]
    /\ l["tpm"] <= l["tpa"]
    /\ l["tpa"] <= l["fga"]
    /\ l["ftm"] <= l["fta"]

\* C30: in a game made by create-game and driven by forward buttons, undo,
\* clear-player and clear-game only, every line satisfies in every state
\* pts = 2*fgm + tpm + ftm, tpm <= fgm <= fga, tpm <= tpa <= fga and ftm <= fta
C30_LineConsistent ==
    \A g \in allGames : \A l \in allLines(g) : consistentLine(l)

\* two events were applied, the line of their player was cleared in between or after,
\* and the undo of the older event, an event with points, found the zero line
C30_Witness ==
    /\ lastUndone
    /\ eventsApplied = 2
    /\ activeGame.history = <<>>
    /\ deltaPts(lastOp.ev.delta) > 0
    /\ storedLine(prevGame, lastOp.ev.side, lastOp.ev.playerId) = [k \in StatKeySet |-> 0]
    /\ storedLine(activeGame, lastOp.ev.side, lastOp.ev.playerId) = [k \in StatKeySet |-> 0]

\* C28 as stated: in any reachable state of a game, one whose history or undo stack
\* is at its bound included, apply-event directly followed by undo leaves the
\* history and the undo stack as they were before the apply: the same entries in
\* the same order
C28_ApplyUndoKeepsLists ==
    appliedThenUndone =>
        /\ activeGame.history = originGame.history
        /\ activeGame.undo = originGame.undo

\* C28 as amended: apply-event directly followed by undo leaves the history as it
\* was when it held fewer than 500 entries, and the undo stack as it was when it
\* held fewer than 300; a history of 500 entries comes back without its oldest
\* entry, an undo stack of 300 without its oldest action
C28_ApplyUndoKeepsListsBelowBound ==
    appliedThenUndone =>
        /\ Len(originGame.history) < 500 => activeGame.history = originGame.history
        /\ Len(originGame.undo) < 300 => activeGame.undo = originGame.undo
        /\ Len(originGame.history) = 500 => activeGame.history = firstN(originGame.history, 499)
        /\ Len(originGame.undo) = 300 => activeGame.undo = firstN(originGame.undo, 299)

\* an event was applied and undone on a history of 300 entries, which came back
\* whole, and an undo stack of 300 actions, which lost its oldest
C28_Witness ==
    /\ appliedThenUndone
    /\ Len(originGame.history) = 300
    /\ Len(originGame.undo) = 300
    /\ activeGame.history = originGame.history
    /\ Len(activeGame.undo) = 299

\* C29: whenever there is an active game it is a game of the selected team, after
\* any sequence of team switches, game creations and game selections
C29_ActiveGameOfTeam == hasActiveGame => activeGame.team = team

====
